---- MODULE Spec2Model ----
(***************************************************************************)
(* Model of examples/scraper/scraper.py: the document extractor            *)
(* (extract_document_links), the pagination walker                         *)
(* (get_all_document_links), the retrieval engine (download_document,      *)
(* batch_download_documents), main_controller and the helpers they call.   *)
(*                                                                         *)
(* Strings are sequences of tokens: "http://h1/d/a.pdf" is                 *)
(* <<"http://h1", "/", "d", "/", "a", ".pdf">>.  Python's None and the     *)
(* empty string are both falsy; where the code only tests truthiness of a  *)
(* string the model writes both as <<>>.  For the optional integers        *)
(* (max_pages, limit) None is the integer NoneInt.                         *)
(***************************************************************************)
EXTENDS Integers, Sequences, FiniteSets, TLC

VARIABLES
    \* ---- get_all_document_links ----
    start_page, max_pages, limit,      \* arguments
    page_num, all_document_data, document_count,
    wpc,                               \* "idle" | "fetching" | "done"
    walk_result,                       \* the returned list (once wpc = "done")
    fetchLog,                          \* history: one entry per requests.get(url)
    pauses,                            \* history: number of time.sleep(1) calls
    \* ---- batch_download_documents ----
    document_links,                    \* argument: sequence of URLs
    bi,                                \* enumerate() position, 1-based
    success_count, failure_count, success_log, failure_log,
    files,                             \* the output directory: filename -> content
    bpc,                               \* "idle" | "loop" | "done"
    saved_success, saved_failure,      \* success_log.csv / failure_log.csv
    calls,                             \* history: one entry per download_document call
    \* ---- main_controller ----
    mpc,                               \* "idle" | "walking" | "saved" | "downloading"
    document_urls,                     \* line 283
    csv_rows,                          \* formatted_document_data.csv
    trace,                             \* history: outbound requests and page pauses, in order
    \* ---- extract_document_links / format_document_data on their own ----
    ex_anchors, ex_base,               \* arguments: the anchors of the markup, base_url
    ex_pc,                             \* "idle" | "ready" | "extracted" | "formatted"
    ex_out,                            \* the list returned by extract_document_links
    ex_rows                            \* the list returned by format_document_data

walkVars == <<start_page, max_pages, limit, page_num, all_document_data,
              document_count, wpc, walk_result, fetchLog, pauses>>
batchVars == <<document_links, bi, success_count, failure_count, success_log,
               failure_log, files, bpc, saved_success, saved_failure, calls>>
mainVars == <<mpc, document_urls, csv_rows>>
extractVars == <<ex_anchors, ex_base, ex_pc, ex_out, ex_rows>>
vars == <<walkVars, batchVars, mainVars, trace, extractVars>>

----------------------------------------------------------------------------
(* Bounds of the explored inputs *)

MaxBatch == 3
MaxFetches == 3
MaxStartPage == 2
MaxMaxPages == 2
MaxLimit == 3
MaxMainLimit == 2
MaxAnchors == 3

----------------------------------------------------------------------------
(* Generic helpers *)

NoneInt == -1
NoneStr == <<>>

Truthy(x) == x # NoneInt /\ x # 0

Take(s, n) == IF n >= Len(s) THEN s ELSE SubSeq(s, 1, n)

BoundedSeq(S, n) == UNION {[1..k -> S] : k \in 0..n}

RECURSIVE Flatten(_)
Flatten(ss) == IF ss = <<>> THEN <<>> ELSE Head(ss) \o Flatten(Tail(ss))

\* index of the last occurrence of tok in s, 0 when absent
LastIndexOf(s, tok) ==
    LET I == {i \in 1..Len(s) : s[i] = tok}
    IN  IF I = {} THEN 0 ELSE CHOOSE i \in I : \A j \in I : j <= i

\* index of the first occurrence of a token of T in s, Len(s)+1 when absent
FirstIndexIn(s, T) ==
    LET I == {i \in 1..Len(s) : s[i] \in T}
    IN  IF I = {} THEN Len(s) + 1 ELSE CHOOSE i \in I : \A j \in I : i <= j

----------------------------------------------------------------------------
(* URLs *)

Origins == {"http://h1", "http://h2", "http://site"}

\* urllib.parse.urlparse(url).path: what follows scheme://netloc, up to the
\* query or the fragment
UrlPath(url) ==
    LET rest == IF url # <<>> /\ url[1] \in Origins THEN Tail(url) ELSE url
    IN  SubSeq(rest, 1, FirstIndexIn(rest, {"?", "#"}) - 1)

\* os.path.basename(path): what follows the last slash
Basename(path) == SubSeq(path, LastIndexOf(path, "/") + 1, Len(path))

GetFilenameFromUrl(url) == Basename(UrlPath(url))

----------------------------------------------------------------------------
(* The retrieval engine: download_document and batch_download_documents *)

OutputDir == <<"downloads">>

\* the URLs a batch is drawn from: two URLs with the same final segment, one
\* with a query string, one whose path ends in a slash (no filename)
URLS == { <<"http://h1", "/", "a", ".pdf">>,
          <<"http://h2", "/", "d", "/", "a", ".pdf">>,
          <<"http://h1", "/", "b", ".docx", "?", "v">>,
          <<"http://h1", "/", "d", "/">> }

FileNames == {GetFilenameFromUrl(u) : u \in URLS} \ {<<>>}

Absent == [kind |-> "absent", src |-> <<>>]
Present == [kind |-> "present", src |-> <<>>]    \* there before the run
Complete(u) == [kind |-> "complete", src |-> u]  \* fully streamed from u
Partial(u) == [kind |-> "partial", src |-> u]    \* opened, stream broken off

\* what the transport and the disk do to one download
NetOutcomes == {"ok", "request_error", "open_error", "stream_error", "write_error"}

\* os.path.join(output_dir, filename)
PathJoin(dir, filename) == dir \o <<"/">> \o filename

FileExistsNever(fs, filename) == FALSE

\* os.path.exists(filepath), for a filepath inside the output directory
FileExists(fs, filename) == filename \in DOMAIN fs /\ fs[filename] # Absent

TimeHasUniformDefined == TRUE

\* hasattr(time, "uniform"): the time module defines no uniform(), so
\* evaluating time.uniform raises AttributeError
TimeHasUniform == FALSE

\* Lines 118-127: the streaming GET and the write loop, under outcome net
FetchAndWrite(document_url, filename, fs, net) ==
    CASE net = "ok" ->
            [ret |-> PathJoin(OutputDir, filename),
             fs |-> [fs EXCEPT ![filename] = Complete(document_url)],
             logged |-> "downloaded"]
      [] net = "request_error" ->      \* requests.get / raise_for_status raise
            [ret |-> NoneStr, fs |-> fs, logged |-> "request_failed"]
      [] net = "open_error" ->         \* open(filepath, 'wb') raises OSError
            [ret |-> NoneStr, fs |-> fs, logged |-> "unexpected"]
      [] net = "stream_error" ->       \* iter_content raises RequestException
            [ret |-> NoneStr,
             fs |-> [fs EXCEPT ![filename] = Partial(document_url)],
             logged |-> "request_failed"]
      [] OTHER ->                      \* file.write raises OSError
            [ret |-> NoneStr,
             fs |-> [fs EXCEPT ![filename] = Partial(document_url)],
             logged |-> "unexpected"]

\* download_document(document_url, output_dir, rate_limit_delay): the value
\* returned, the directory afterwards, the number of sleeps and of GETs made
\* and the message logged
DownloadDocument(document_url, fs, net) ==
    LET filename == GetFilenameFromUrl(document_url)
    IN  IF filename = <<>>
        THEN [ret |-> NoneStr, fs |-> fs, slept |-> 0, fetched |-> 0,
              logged |-> "no_filename"]
        ELSE IF FileExists(fs, filename)
        THEN [ret |-> PathJoin(OutputDir, filename), fs |-> fs, slept |-> 0,
              fetched |-> 0, logged |-> "exists"]
        ELSE IF ~TimeHasUniform
        THEN [ret |-> NoneStr, fs |-> fs, slept |-> 0, fetched |-> 0,
              logged |-> "unexpected"]
        ELSE LET w == FetchAndWrite(document_url, filename, fs, net)
             IN  [ret |-> w.ret, fs |-> w.fs, slept |-> 1, fetched |-> 1,
                  logged |-> w.logged]

SuccessEntry(doc_url, filepath) == [url |-> doc_url, filepath |-> filepath]

FailureEntryWithCause(doc_url, cause) == [url |-> doc_url, error |-> cause]

\* line 166: the row appended to failure_log; cause is the message
\* download_document logged, which the row does not use
FailureEntry(doc_url, cause) == [url |-> doc_url, error |-> "Download failed"]

AppendFailureAlways(flog, doc_url, filepath, cause) ==
    Append(flog, FailureEntry(doc_url, cause))

\* lines 160-166: the two logs after one item
AppendSuccess(slog, doc_url, filepath) ==
    IF filepath # NoneStr THEN Append(slog, SuccessEntry(doc_url, filepath)) ELSE slog

AppendFailure(flog, doc_url, filepath, cause) ==
    IF filepath # NoneStr THEN flog ELSE Append(flog, FailureEntry(doc_url, cause))

NextItemStopOnFailure(i, n, filepath) == IF filepath = NoneStr THEN n + 1 ELSE i + 1

\* line 156: the for loop goes on to the next element whatever the outcome
NextItem(i, n, filepath) == i + 1

InitBatchIdle ==
    /\ document_links = <<>>
    /\ bi = 1
    /\ success_count = 0
    /\ failure_count = 0
    /\ success_log = <<>>
    /\ failure_log = <<>>
    /\ files = [f \in FileNames |-> Absent]
    /\ bpc = "idle"
    /\ saved_success = <<>>
    /\ saved_failure = <<>>
    /\ calls = <<>>

InitBatch ==
    /\ document_links \in BoundedSeq(URLS, MaxBatch)
    /\ bi = 1
    /\ success_count = 0
    /\ failure_count = 0
    /\ success_log = <<>>
    /\ failure_log = <<>>
    /\ files \in [FileNames -> {Absent, Present}]
    /\ bpc = "loop"
    /\ saved_success = <<>>
    /\ saved_failure = <<>>
    /\ calls = <<>>

\* lines 156-167: one iteration of the loop
BatchStep ==
    /\ bpc = "loop"
    /\ bi <= Len(document_links)
    /\ \E net \in NetOutcomes :
         LET doc_url == document_links[bi]
             r == DownloadDocument(doc_url, files, net)
             filename == GetFilenameFromUrl(doc_url)
         IN  /\ files' = r.fs
             /\ success_log' = AppendSuccess(success_log, doc_url, r.ret)
             /\ failure_log' = AppendFailure(failure_log, doc_url, r.ret, r.logged)
             /\ success_count' = IF r.ret # NoneStr THEN success_count + 1 ELSE success_count
             /\ failure_count' = IF r.ret # NoneStr THEN failure_count ELSE failure_count + 1
             /\ bi' = NextItem(bi, Len(document_links), r.ret)
             /\ calls' = Append(calls,
                   [url |-> doc_url, filename |-> filename, at |-> bi, net |-> net,
                    before |-> IF filename \in DOMAIN files THEN files[filename] ELSE Absent,
                    after |-> IF filename \in DOMAIN files THEN r.fs[filename] ELSE Absent,
                    ret |-> r.ret, slept |-> r.slept, fetched |-> r.fetched,
                    logged |-> r.logged])
             /\ trace' = IF r.fetched = 1
                         THEN Append(trace, [kind |-> "download", url |-> doc_url])
                         ELSE trace
    /\ UNCHANGED <<document_links, bpc, saved_success, saved_failure>>

\* lines 169-180: the two logs are written once the loop is over
BatchSave ==
    /\ bpc = "loop"
    /\ bi > Len(document_links)
    /\ saved_success' = success_log
    /\ saved_failure' = failure_log
    /\ bpc' = "done"
    /\ UNCHANGED <<document_links, bi, success_count, failure_count, success_log,
                   failure_log, files, calls, trace>>

----------------------------------------------------------------------------
(* The document extractor, as far as the walker depends on it *)

\* hrefs of the sample markup: a relative document, an absolute document, a
\* relative document whose path begins with the letters http, an image
HrefRel == <<"a", ".pdf">>
HrefAbs == <<"http://h1", "/", "b", ".docx">>
HrefHttpDir == <<"httpdocs", "/", "c", ".PDF">>
HrefImg == <<"c", ".png">>

\* re.compile(r'\.pdf$|\.doc[x]?$', re.IGNORECASE) searched in the href
DocSuffixes == {".pdf", ".PDF", ".Pdf", ".doc", ".DOC", ".docx", ".DOCX"}
MatchesDocumentRegex(href) == href # <<>> /\ href[Len(href)] \in DocSuffixes

\* href.startswith('http')
StartsWithHttp(href) == href # <<>> /\ href[1] \in Origins \cup {"httpdocs"}

\* urllib.parse.urljoin(base_url, href) for a base ending in a directory
UrlJoin(base, href) ==
    IF href # <<>> /\ href[1] \in Origins THEN href
    ELSE IF href # <<>> /\ href[1] = "/" THEN <<base[1]>> \o href
    ELSE SubSeq(base, 1, LastIndexOf(base, "/")) \o href

\* lines 49-51
ResolveHref(href, base_url) ==
    IF href # <<>> /\ ~StartsWithHttp(href) THEN UrlJoin(base_url, href) ELSE href

\* the value None where the code keeps it apart from the empty string (the
\* fields of a record); str(None) is the four letters None
PyNone == <<"<None>">>
Str(x) == IF x = PyNone THEN <<"None">> ELSE x

Whitespace == {" ", "\n"}

RECURSIVE LStrip(_)
LStrip(s) == IF s # <<>> /\ Head(s) \in Whitespace THEN LStrip(Tail(s)) ELSE s

RECURSIVE RStrip(_)
RStrip(s) ==
    IF s # <<>> /\ s[Len(s)] \in Whitespace THEN RStrip(SubSeq(s, 1, Len(s) - 1)) ELSE s

\* str.strip()
Strip(s) == RStrip(LStrip(s))

\* lines 60-61: the stripped, non-empty text nodes of the parent
RECURSIVE StrippedNonEmpty(_)
StrippedNonEmpty(strings) ==
    IF strings = <<>> THEN <<>>
    ELSE IF Strip(Head(strings)) # <<>>
         THEN <<Strip(Head(strings))>> \o StrippedNonEmpty(Tail(strings))
         ELSE StrippedNonEmpty(Tail(strings))

\* lines 56-71: first, second, third
ContextField(siblings, n) == IF Len(siblings) >= n THEN siblings[n] ELSE PyNone

ExtractTextRaises(served) == [raised |-> served.status # "ok", text |-> served.text]

\* extract_text_from_pdf / extract_text_from_docx on what the server and the
\* reader library do (status ok, transport_error or parse_error): every
\* exception is caught and None returned
ExtractText(served) ==
    IF served.status = "ok" THEN [raised |-> FALSE, text |-> served.text]
    ELSE [raised |-> FALSE, text |-> PyNone]

\* href.lower().endswith('.pdf') / endswith(('.doc', '.docx')): the last
\* token lowered
LowerSuffix(tok) ==
    CASE tok \in {".pdf", ".PDF", ".Pdf"} -> ".pdf"
      [] tok \in {".doc", ".DOC"} -> ".doc"
      [] tok \in {".docx", ".DOCX"} -> ".docx"
      [] OTHER -> tok

\* lines 77-81: which reader the href is handed to
ReaderFor(href) ==
    IF href = <<>> THEN "none"
    ELSE IF LowerSuffix(href[Len(href)]) = ".pdf" THEN "pdf"
    ELSE IF LowerSuffix(href[Len(href)]) \in {".doc", ".docx"} THEN "docx"
    ELSE "none"

AuthorLabels == {"Author:", "author:", "AUTHOR:"}

\* lines 84-87: re.search(r"Author:\s*(.*)", text, re.IGNORECASE), group(1)
\* stripped: what follows the first label, up to the end of the line
AuthorOf(text) ==
    IF text = PyNone \/ text = <<>> THEN PyNone
    ELSE LET i == FirstIndexIn(text, AuthorLabels)
         IN  IF i > Len(text) THEN PyNone
             ELSE LET rest == LStrip(SubSeq(text, i + 1, Len(text)))
                      line == SubSeq(rest, 1, FirstIndexIn(rest, {"\n"}) - 1)
                  IN  Strip(line)

\* lines 49-97: the record of one matching anchor
RecordOf(a, base_url) ==
    LET href == ResolveHref(a.href, base_url)
        siblings == StrippedNonEmpty(a.strings)
        document_text == IF ReaderFor(href) = "none" THEN PyNone
                         ELSE ExtractText(a.served).text
    IN  [url |-> href,
         document_name |-> Strip(a.text),
         first |-> ContextField(siblings, 1),
         second |-> ContextField(siblings, 2),
         third |-> ContextField(siblings, 3),
         author |-> AuthorOf(document_text),
         document_text |-> document_text]

SkipsRepeatedHref(a, seen) == a.href \in seen

\* line 48: find_all keeps every matching anchor, repeated hrefs included
SkipsAnchor(a, seen) == FALSE

RECURSIVE ExtractFrom(_, _, _)
ExtractFrom(anchors, base_url, seen) ==
    IF anchors = <<>> THEN <<>>
    ELSE LET a == Head(anchors)
             rest == ExtractFrom(Tail(anchors), base_url, seen \cup {a.href})
         IN  IF MatchesDocumentRegex(a.href) /\ ~SkipsAnchor(a, seen)
             THEN <<RecordOf(a, base_url)>> \o rest
             ELSE rest

\* extract_document_links(html_content, base_url): one record per matching
\* anchor, in markup order
ExtractDocumentLinks(anchors, base_url) == ExtractFrom(anchors, base_url, {})

\* an exception of a text extraction would leave extract_document_links
\* (line 232 is outside the try of the walker)
ExtractDocumentLinksRaises(anchors) ==
    \E i \in 1..Len(anchors) :
        /\ MatchesDocumentRegex(anchors[i].href)
        /\ ExtractText(anchors[i].served).raised

RECURSIVE TextRequests(_, _)
\* lines 20 and 32: the GETs extract_document_links causes, one per matching
\* anchor, in markup order
TextRequests(anchors, base_url) ==
    IF anchors = <<>> THEN <<>>
    ELSE IF MatchesDocumentRegex(Head(anchors).href)
         THEN <<[kind |-> "text", url |-> ResolveHref(Head(anchors).href, base_url)]>>
              \o TextRequests(Tail(anchors), base_url)
         ELSE TextRequests(Tail(anchors), base_url)

\* one <a>: its href (<<>> when it has none), its text, the text nodes of its
\* parent element, and what a text extraction of the href meets
FullAnchor(h, t, ss, v) == [href |-> h, text |-> t, strings |-> ss, served |-> v]

TextWithAuthor == <<"Report", "\n", "author:", " ", "Ann", " ", "\n", "body">>
TextNoAuthor == <<"body">>
Served(st, tx) == [status |-> st, text |-> tx]

Anchor(h) == FullAnchor(h, <<" ", "Doc", " ">>, << <<" ", "Doc", " ">>, <<"2024">> >>,
                        Served("ok", TextWithAuthor))
FailingAnchor(h) == FullAnchor(h, <<"Doc">>, << <<"Doc">> >>, Served("transport_error", <<>>))

\* the page bodies a site may answer with; next is the presence of an
\* <a class="nextpostslink">
Markups == { <<>>,
             <<Anchor(HrefRel)>>,
             <<FailingAnchor(HrefAbs), Anchor(HrefImg), Anchor(HrefRel)>>,
             <<Anchor(HrefRel), Anchor(HrefRel)>>,
             <<Anchor(HrefHttpDir), Anchor(HrefAbs)>> }
Htmls == [anchors : Markups, next : BOOLEAN]

----------------------------------------------------------------------------
(* The pagination walker: get_all_document_links *)

BaseUrl == <<"http://site", "/", "library", "/">>

PageToken(n) == <<"0", "1", "2", "3", "4", "5", "6", "7", "8", "9">>[n + 1]

\* line 220
PageUrl(base_url, n) ==
    IF n > 1 THEN base_url \o <<"page", "/", PageToken(n), "/">> ELSE base_url

\* line 238: `if limit and document_count >= limit`
LimitReached(lim, count) == Truthy(lim) /\ count >= lim

\* line 240: all_document_data[:limit]
Truncate(all, lim) == Take(all, lim)

\* line 251: `if max_pages and page_num >= max_pages`
MaxPagesReached(maxp, n) == Truthy(maxp) /\ n >= maxp

StopsOnMarkerOnly(html) == FALSE

\* lines 245-247: `if not next_page_link`
NoNextPage(html) == ~html.next

AfterFetchErrorSkip(n) == [stop |-> FALSE, page |-> n + 1]

\* lines 227-229: the except branch breaks out of the loop
AfterFetchError(n) == [stop |-> TRUE, page |-> n]

InitWalkIdle ==
    /\ start_page = 1
    /\ max_pages = NoneInt
    /\ limit = NoneInt
    /\ page_num = 1
    /\ all_document_data = <<>>
    /\ document_count = 0
    /\ wpc = "idle"
    /\ walk_result = <<>>
    /\ fetchLog = <<>>
    /\ pauses = 0

InitWalk ==
    /\ start_page \in 0..MaxStartPage
    /\ max_pages \in {NoneInt} \cup 0..MaxMaxPages
    /\ limit \in {NoneInt} \cup 0..MaxLimit
    /\ page_num = start_page
    /\ all_document_data = <<>>
    /\ document_count = 0
    /\ wpc = "fetching"
    /\ walk_result = <<>>
    /\ fetchLog = <<>>
    /\ pauses = 0

\* lines 223-229: requests.get or raise_for_status raises RequestException
WalkFetchError ==
    /\ wpc = "fetching"
    /\ Len(fetchLog) < MaxFetches
    /\ LET url == PageUrl(BaseUrl, page_num)
           e == AfterFetchError(page_num)
       IN  /\ fetchLog' = Append(fetchLog,
                 [page |-> page_num, url |-> url, ok |-> FALSE, next |-> FALSE,
                  anchors |-> <<>>, found |-> <<>>, before |-> all_document_data])
           /\ wpc' = IF e.stop THEN "done" ELSE "fetching"
           /\ walk_result' = IF e.stop THEN all_document_data ELSE walk_result
           /\ page_num' = e.page
           /\ trace' = Append(trace, [kind |-> "page", url |-> url])
    /\ UNCHANGED <<start_page, max_pages, limit, all_document_data, document_count,
                   pauses>>

PauseNever(continues) == <<>>

\* line 256: time.sleep(1) once the loop goes on to the next page
PauseEvents(continues) ==
    IF continues THEN <<[kind |-> "pause", url |-> <<>>]>> ELSE <<>>

\* lines 218-256: one iteration of the loop on a page fetched successfully
WalkPage ==
    /\ wpc = "fetching"
    /\ Len(fetchLog) < MaxFetches
    /\ \E html \in Htmls :
         LET url == PageUrl(BaseUrl, page_num)
             document_data == ExtractDocumentLinks(html.anchors, url)
             extended == all_document_data \o document_data
             count == document_count + Len(document_data)
             raised == ExtractDocumentLinksRaises(html.anchors)
             stops == LimitReached(limit, count) \/ NoNextPage(html)
                        \/ MaxPagesReached(max_pages, page_num)
             requests == <<[kind |-> "page", url |-> url]>> \o TextRequests(html.anchors, url)
         IN  /\ fetchLog' = Append(fetchLog,
                   [page |-> page_num, url |-> url, ok |-> TRUE, next |-> html.next,
                    anchors |-> html.anchors,
                    found |-> IF raised THEN <<>> ELSE document_data,
                    before |-> all_document_data])
             /\ trace' = trace \o requests \o PauseEvents(~raised /\ ~stops)
             /\ IF raised
                THEN /\ wpc' = "raised"
                     /\ UNCHANGED <<all_document_data, document_count, walk_result,
                                    page_num, pauses>>
                ELSE IF LimitReached(limit, count)
                THEN /\ document_count' = count
                     /\ all_document_data' = Truncate(extended, limit)
                     /\ wpc' = "done"
                     /\ walk_result' = Truncate(extended, limit)
                     /\ UNCHANGED <<page_num, pauses>>
                ELSE IF NoNextPage(html) \/ MaxPagesReached(max_pages, page_num)
                THEN /\ document_count' = count
                     /\ all_document_data' = extended
                     /\ wpc' = "done"
                     /\ walk_result' = extended
                     /\ UNCHANGED <<page_num, pauses>>
                ELSE /\ document_count' = count
                     /\ all_document_data' = extended
                     /\ page_num' = page_num + 1
                     /\ pauses' = pauses + 1
                     /\ UNCHANGED <<wpc, walk_result>>
    /\ UNCHANGED <<start_page, max_pages, limit>>

----------------------------------------------------------------------------
(* format_document_data and main_controller *)

\* lines 187-197: the four fields, each through str()
RowOf(doc) == <<Str(doc.document_name), Str(doc.first), Str(doc.second), Str(doc.third)>>

\* format_document_data(document_data)
FormatDocumentData(document_data) ==
    [i \in 1..Len(document_data) |-> RowOf(document_data[i])]

RECURSIVE DocumentUrlsDistinct(_)
DocumentUrlsDistinct(records) ==
    IF records = <<>> THEN <<>>
    ELSE LET rest == DocumentUrlsDistinct(Tail(records))
         IN  IF Head(records).url = <<>> \/ \E i \in 1..Len(rest) : rest[i] = Head(records).url
             THEN rest ELSE <<Head(records).url>> \o rest

RECURSIVE DocumentUrls(_)
\* line 283: [doc['url'] for doc in all_document_data if doc['url']]
DocumentUrls(records) ==
    IF records = <<>> THEN <<>>
    ELSE IF Head(records).url # <<>> /\ Head(records).url # PyNone
         THEN <<Head(records).url>> \o DocumentUrls(Tail(records))
         ELSE DocumentUrls(Tail(records))

InitMainIdle ==
    /\ mpc = "idle"
    /\ document_urls = <<>>
    /\ csv_rows = <<>>
    /\ trace = <<>>

\* main_controller(base_url, max_pages=..., limit=...) with start_page left at
\* its default and a download directory that is new or holds a.pdf from an
\* earlier run
InitMain ==
    /\ start_page = 1
    /\ max_pages \in {NoneInt} \cup 0..MaxMaxPages
    /\ limit \in 1..MaxMainLimit
    /\ page_num = start_page
    /\ all_document_data = <<>>
    /\ document_count = 0
    /\ wpc = "fetching"
    /\ walk_result = <<>>
    /\ fetchLog = <<>>
    /\ pauses = 0
    /\ document_links = <<>>
    /\ bi = 1
    /\ success_count = 0
    /\ failure_count = 0
    /\ success_log = <<>>
    /\ failure_log = <<>>
    /\ files \in {[f \in FileNames |-> Absent],
                  [f \in FileNames |-> IF f = <<"a", ".pdf">> THEN Present ELSE Absent]}
    /\ bpc = "idle"
    /\ saved_success = <<>>
    /\ saved_failure = <<>>
    /\ calls = <<>>
    /\ mpc = "walking"
    /\ document_urls = <<>>
    /\ csv_rows = <<>>
    /\ trace = <<>>

\* lines 280-292: the walker has returned; the URLs are collected, the rows
\* formatted and the table written
MainFormatAndSave ==
    /\ mpc = "walking"
    /\ wpc = "done"
    /\ document_urls' = DocumentUrls(walk_result)
    /\ csv_rows' = FormatDocumentData(walk_result)
    /\ mpc' = "saved"
    /\ UNCHANGED <<walkVars, batchVars, trace>>

\* lines 295 and 148-154: batch_download_documents(document_urls, download_path)
MainStartBatch ==
    /\ mpc = "saved"
    /\ document_links' = document_urls
    /\ bi' = 1
    /\ success_count' = 0
    /\ failure_count' = 0
    /\ success_log' = <<>>
    /\ failure_log' = <<>>
    /\ bpc' = "loop"
    /\ mpc' = "downloading"
    /\ UNCHANGED <<walkVars, files, saved_success, saved_failure, calls,
                   document_urls, csv_rows, trace>>

----------------------------------------------------------------------------
(* extract_document_links and format_document_data called on their own *)

CtxNone == <<>>
CtxOne == << <<"Doc">> >>
CtxTwo == << <<" ", "Doc", " ">>, <<"\n">>, <<"2024">> >>
CtxThree == << <<"Cat">>, <<"Doc">>, <<" ">>, <<"2024">> >>
CtxFour == << <<"Cat">>, <<"Doc">>, <<"2024">>, <<"more">> >>

HrefDoc == <<"e", ".doc">>
HrefQuery == <<"a", ".pdf", "?", "v">>
HrefRooted == <<"/", "r", ".DOCX">>

\* the anchors a markup is built from
AnchorPool ==
    { FullAnchor(HrefRel, <<"Doc">>, CtxOne, Served("ok", TextWithAuthor)),
      FullAnchor(HrefRel, <<"Doc">>, CtxOne, Served("transport_error", <<>>)),
      FullAnchor(HrefAbs, <<" ", "Doc", " ">>, CtxTwo, Served("parse_error", <<>>)),
      FullAnchor(HrefAbs, <<"Doc">>, CtxThree, Served("ok", TextNoAuthor)),
      FullAnchor(HrefHttpDir, <<>>, CtxNone, Served("ok", <<>>)),
      FullAnchor(HrefImg, <<"Doc">>, CtxOne, Served("ok", TextWithAuthor)),
      FullAnchor(HrefDoc, <<"Doc">>, CtxFour, Served("parse_error", <<>>)),
      FullAnchor(HrefQuery, <<"Doc">>, CtxOne, Served("ok", TextWithAuthor)),
      FullAnchor(<<>>, <<"Doc">>, CtxOne, Served("ok", TextNoAuthor)),
      FullAnchor(HrefRooted, <<"Doc">>, CtxThree, Served("ok", TextWithAuthor)) }

InitExtractIdle ==
    /\ ex_anchors = <<>>
    /\ ex_base = BaseUrl
    /\ ex_pc = "idle"
    /\ ex_out = <<>>
    /\ ex_rows = <<>>

InitExtract ==
    /\ ex_anchors \in BoundedSeq(AnchorPool, MaxAnchors)
    /\ ex_base \in {PageUrl(BaseUrl, 1), PageUrl(BaseUrl, 2)}
    /\ ex_pc = "ready"
    /\ ex_out = <<>>
    /\ ex_rows = <<>>

\* extract_document_links(html_content, base_url)
ExtractCall ==
    /\ ex_pc = "ready"
    /\ IF ExtractDocumentLinksRaises(ex_anchors)
       THEN ex_pc' = "raised" /\ UNCHANGED ex_out
       ELSE ex_pc' = "extracted" /\ ex_out' = ExtractDocumentLinks(ex_anchors, ex_base)
    /\ UNCHANGED <<ex_anchors, ex_base, ex_rows>>

\* format_document_data(document_data) on the records just extracted
FormatCall ==
    /\ ex_pc = "extracted"
    /\ ex_rows' = FormatDocumentData(ex_out)
    /\ ex_pc' = "formatted"
    /\ UNCHANGED <<ex_anchors, ex_base, ex_out>>

----------------------------------------------------------------------------
(* Specifications *)

NextWalk == (WalkFetchError \/ WalkPage) /\ UNCHANGED <<batchVars, mainVars, extractVars>>
InitWalkOnly == InitWalk /\ InitBatchIdle /\ InitMainIdle /\ InitExtractIdle
SpecWalk == InitWalkOnly /\ [][NextWalk]_vars

NextBatch == (BatchStep \/ BatchSave) /\ UNCHANGED <<walkVars, mainVars, extractVars>>
InitBatchOnly == InitBatch /\ InitWalkIdle /\ InitMainIdle /\ InitExtractIdle
SpecBatch == InitBatchOnly /\ [][NextBatch]_vars

NextExtract == (ExtractCall \/ FormatCall) /\ UNCHANGED <<walkVars, batchVars, mainVars, trace>>
InitExtractOnly == InitExtract /\ InitWalkIdle /\ InitBatchIdle /\ InitMainIdle
SpecExtract == InitExtractOnly /\ [][NextExtract]_vars

\* main_controller: the walk, then the table, then the batch
Next ==
    \/ (WalkFetchError \/ WalkPage) /\ UNCHANGED <<batchVars, mainVars, extractVars>>
    \/ (MainFormatAndSave \/ MainStartBatch) /\ UNCHANGED extractVars
    \/ (BatchStep \/ BatchSave) /\ UNCHANGED <<walkVars, mainVars, extractVars>>
Init == InitMain /\ InitExtractIdle
Spec == Init /\ [][Next]_vars

----------------------------------------------------------------------------
(* Properties of the retrieval engine, checked under SpecBatch *)

FailedCalls == SelectSeq(calls, LAMBDA c : c.ret = NoneStr)

\* C1: when the batch has finished, the success log and the failure log
\* together hold exactly one entry per element of the URL sequence, and no
\* URL is in both logs.
C1_LogsPartitionBatch ==
    bpc = "done" =>
        /\ Len(saved_success) + Len(saved_failure) = Len(document_links)
        /\ success_count + failure_count = Len(document_links)
        /\ \A i \in 1..Len(saved_success) : \A j \in 1..Len(saved_failure) :
              saved_success[i].url # saved_failure[j].url

\* a finished batch with a URL repeated and both logs non-empty
C1_Witness ==
    /\ bpc = "done"
    /\ saved_success # <<>>
    /\ saved_failure # <<>>
    /\ \E i, j \in 1..Len(document_links) : i # j /\ document_links[i] = document_links[j]

\* C2: two calls in a row on the same URL, the file absent at first and the
\* transport able to serve, make exactly one GET: the first call fetches and
\* writes the file, the second returns its path without fetching.
C2_SecondCallDoesNotRefetch ==
    \A i \in 1..(Len(calls) - 1) :
        (/\ calls[i].url = calls[i + 1].url
         /\ calls[i].filename # <<>>
         /\ calls[i].before = Absent
         /\ calls[i].net = "ok")
        => /\ calls[i].fetched + calls[i + 1].fetched = 1
           /\ calls[i].fetched = 1
           /\ calls[i].ret = PathJoin(OutputDir, calls[i].filename)
           /\ calls[i].after = Complete(calls[i].url)
           /\ calls[i + 1].ret = PathJoin(OutputDir, calls[i].filename)

\* C3: a call for a URL with a filename, no such file in the directory and a
\* transport that serves the document sleeps once, issues one GET, writes the
\* file and returns its path.
C3_DownloadFetchesAndWrites ==
    \A i \in 1..Len(calls) :
        (/\ calls[i].filename # <<>>
         /\ calls[i].before = Absent
         /\ calls[i].net = "ok")
        => /\ calls[i].slept = 1
           /\ calls[i].fetched = 1
           /\ calls[i].ret = PathJoin(OutputDir, calls[i].filename)
           /\ calls[i].after = Complete(calls[i].url)

\* C4: when the file derived from the URL is already in the output directory
\* the call returns its path with no sleep and no GET, and the file is left
\* as it was.
C4_ExistingFileIsSkipped ==
    \A i \in 1..Len(calls) :
        (calls[i].filename # <<>> /\ calls[i].before # Absent)
        => /\ calls[i].ret = PathJoin(OutputDir, calls[i].filename)
           /\ calls[i].slept = 0
           /\ calls[i].fetched = 0
           /\ calls[i].after = calls[i].before

\* a call made while the target file was there
C4_Witness ==
    \E i \in 1..Len(calls) : calls[i].before = Present /\ calls[i].ret # NoneStr

\* C9: download_document is called once per element of the sequence, in
\* order, whatever the outcome of the earlier items, and the logs are written
\* only after the last item was attempted.
C9_EveryItemAttemptedOnce ==
    /\ Len(calls) <= Len(document_links)
    /\ \A i \in 1..Len(calls) : calls[i].url = document_links[i] /\ calls[i].at = i
    /\ bpc = "done" => Len(calls) = Len(document_links)
    /\ bpc # "done" => saved_success = <<>> /\ saved_failure = <<>>

\* a finished batch in which an item failed and a later item succeeded
C9_Witness ==
    /\ bpc = "done"
    /\ \E i, j \in 1..Len(calls) : i < j /\ calls[i].ret = NoneStr /\ calls[j].ret # NoneStr

\* C10 as stated: failures of different causes carry different error reasons
\* in the failure log.
C10_ReasonsDistinguishCause ==
    Len(failure_log) = Len(FailedCalls) =>
        \A i, j \in 1..Len(failure_log) :
            FailedCalls[i].logged # FailedCalls[j].logged
            => failure_log[i].error # failure_log[j].error

\* C10 as amended: every failed item has one row {url, "Download failed"} in
\* the failure log, the same reason for every cause; the cause shows only in
\* the message download_document logs, which tells a missing filename from
\* the other failures.
C10_FixedReasonForEveryCause ==
    /\ Len(failure_log) = Len(FailedCalls)
    /\ \A k \in 1..Len(failure_log) :
          /\ failure_log[k] = [url |-> FailedCalls[k].url, error |-> "Download failed"]
          /\ FailedCalls[k].logged = "no_filename" <=> FailedCalls[k].filename = <<>>
          /\ FailedCalls[k].logged \in {"no_filename", "request_failed", "unexpected"}

\* two failures of different causes in one failure log
C10_Witness ==
    /\ Len(failure_log) = Len(FailedCalls)
    /\ \E i, j \in 1..Len(failure_log) : FailedCalls[i].logged # FailedCalls[j].logged

----------------------------------------------------------------------------
(* Properties of the pagination walker, checked under SpecWalk *)

\* the extraction results of the first k fetches, concatenated in fetch order
FoundUpTo(k) == Flatten([i \in 1..k |-> fetchLog[i].found])

\* C5: for every limit L that is set, once the records accumulated reach L
\* the walk stops at that page and returns the first L records found.
C5_LimitStopsWalk ==
    limit # NoneInt =>
        \A k \in 1..Len(fetchLog) :
            (fetchLog[k].ok /\ Len(FoundUpTo(k)) >= limit)
            => /\ k = Len(fetchLog)
               /\ wpc = "done"
               /\ walk_result = Take(FoundUpTo(k), limit)

\* C6: a page fetched successfully that has no next-page marker is the last
\* page fetched; the walk is over and, unless a limit cuts it, returns the
\* accumulator extended by that page's records.
C6_NoMarkerEndsWalk ==
    \A k \in 1..Len(fetchLog) :
        (fetchLog[k].ok /\ ~fetchLog[k].next)
        => /\ k = Len(fetchLog)
           /\ wpc = "done"
           /\ walk_result = Take(fetchLog[k].before \o fetchLog[k].found, Len(walk_result))
           /\ (limit = NoneInt \/ Len(fetchLog[k].before \o fetchLog[k].found) < limit)
              => walk_result = fetchLog[k].before \o fetchLog[k].found

\* a walk ended by a page without marker, below the page cap, on a later page
C6_Witness ==
    /\ wpc = "done"
    /\ Len(fetchLog) >= 2
    /\ fetchLog[Len(fetchLog)].ok
    /\ ~fetchLog[Len(fetchLog)].next
    /\ fetchLog[Len(fetchLog)].found # <<>>
    /\ max_pages # NoneInt
    /\ page_num < max_pages

\* C7: when max_pages is set at most max_pages pages are fetched.
C7_AtMostMaxPages ==
    max_pages # NoneInt => Len(fetchLog) <= max_pages

\* C8: a failed page fetch is the last fetch of the walk, and the walk
\* returns the records of the pages fetched before it, in order.
C8_FetchErrorKeepsPartial ==
    \A k \in 1..Len(fetchLog) :
        ~fetchLog[k].ok
        => /\ k = Len(fetchLog)
           /\ wpc = "done"
           /\ walk_result = fetchLog[k].before
           /\ walk_result = FoundUpTo(k - 1)

\* a walk ended by a failed fetch after a page that yielded records
C8_Witness ==
    /\ wpc = "done"
    /\ Len(fetchLog) >= 2
    /\ ~fetchLog[Len(fetchLog)].ok
    /\ walk_result # <<>>

----------------------------------------------------------------------------
(* Properties of the document extractor, checked under SpecExtract *)

\* the href ends in .pdf, .doc or .docx, whatever the case of the letters
EndsInDocumentSuffix(href) ==
    href # <<>> /\ LowerSuffix(href[Len(href)]) \in {".pdf", ".doc", ".docx"}

\* positions of the anchors of a markup that link to a document
DocPositions(anchors) == {i \in 1..Len(anchors) : EndsInDocumentSuffix(anchors[i].href)}

\* the position of the k-th such anchor
NthDoc(anchors, k) ==
    CHOOSE i \in DocPositions(anchors) :
        Cardinality({j \in DocPositions(anchors) : j <= i}) = k

EndsWith(s, t) == Len(s) >= Len(t) /\ SubSeq(s, Len(s) - Len(t) + 1, Len(s)) = t

\* C11: one record for each anchor whose href ends in .pdf, .doc or .docx,
\* in markup order, repeated anchors included, and none for any other anchor.
C11_OneRecordPerDocumentAnchor ==
    ex_pc \in {"extracted", "formatted"} =>
        /\ Len(ex_out) = Cardinality(DocPositions(ex_anchors))
        /\ \A k \in 1..Len(ex_out) :
              LET a == ex_anchors[NthDoc(ex_anchors, k)]
              IN  /\ EndsWith(ex_out[k].url, a.href)
                  /\ ex_out[k].document_name = Strip(a.text)

\* three anchors, two documents around an image: two records
C11_Witness ==
    /\ ex_pc = "extracted"
    /\ Len(ex_anchors) = 3
    /\ ex_anchors[2].href = HrefImg
    /\ ex_anchors[1].href = HrefRel
    /\ ex_anchors[3].href = HrefAbs
    /\ Len(ex_out) = 2

\* C12: every record has a non-empty url; a relative href (any href that is
\* not an absolute URI, also one whose text begins with http) is resolved
\* against the base URL into an absolute URL, an absolute href is unchanged.
C12_UrlsAreAbsolute ==
    ex_pc \in {"extracted", "formatted"} =>
        \A k \in 1..Len(ex_out) :
            LET a == ex_anchors[NthDoc(ex_anchors, k)]
            IN  /\ ex_out[k].url # <<>>
                /\ ex_out[k].url[1] \in Origins
                /\ a.href[1] \in Origins => ex_out[k].url = a.href
                /\ a.href[1] \notin Origins => ex_out[k].url = UrlJoin(ex_base, a.href)

\* C13: each record becomes one row [name, first, second, third], in record
\* order, where a context field the extractor left unset is the empty string.
C13_UnsetFieldsAreEmpty ==
    ex_pc = "formatted" =>
        /\ Len(ex_rows) = Len(ex_out)
        /\ \A i \in 1..Len(ex_rows) :
              /\ Len(ex_rows[i]) = 4
              /\ ex_rows[i][1] = ex_out[i].document_name
              /\ ex_rows[i][2] = IF ex_out[i].first = PyNone THEN <<>> ELSE ex_out[i].first
              /\ ex_rows[i][3] = IF ex_out[i].second = PyNone THEN <<>> ELSE ex_out[i].second
              /\ ex_rows[i][4] = IF ex_out[i].third = PyNone THEN <<>> ELSE ex_out[i].third

----------------------------------------------------------------------------
(* Further properties of the pagination walker, checked under SpecWalk *)

\* C14: a text extraction that fails does not end the extraction nor the
\* walk: the page yields one record per document anchor, the record of the
\* failed one has document_text and author unset, the records of the other
\* anchors carry the text served for them.
C14_TextFailureIsAbsorbed ==
    /\ wpc # "raised"
    /\ \A p \in 1..Len(fetchLog) :
          fetchLog[p].ok =>
            /\ Len(fetchLog[p].found) = Cardinality(DocPositions(fetchLog[p].anchors))
            /\ \A k \in 1..Len(fetchLog[p].found) :
                  LET a == fetchLog[p].anchors[NthDoc(fetchLog[p].anchors, k)]
                      r == fetchLog[p].found[k]
                  IN  IF a.served.status = "ok"
                      THEN r.document_text = a.served.text
                      ELSE r.document_text = PyNone /\ r.author = PyNone
    /\ wpc = "done" =>
          walk_result = Take(FoundUpTo(Len(fetchLog)), Len(walk_result))

\* a page with a failed text extraction, its other record kept, and a later
\* page fetched with records of its own
C14_Witness ==
    /\ Len(fetchLog) >= 2
    /\ \E k \in 1..Len(fetchLog[1].found) :
          fetchLog[1].anchors[NthDoc(fetchLog[1].anchors, k)].served.status # "ok"
    /\ \E k \in 1..Len(fetchLog[1].found) : fetchLog[1].found[k].document_text # PyNone
    /\ fetchLog[2].ok
    /\ fetchLog[2].found # <<>>
    /\ wpc = "done"
    /\ Len(walk_result) >= 3

\* C15: the pages fetched are start_page, start_page + 1, ..., page 1 at the
\* base URL and page N > 1 at base URL + page/N/, so no URI is fetched twice.
C15_NoPageFetchedTwice ==
    /\ \A i \in 1..Len(fetchLog) :
          /\ fetchLog[i].page = start_page + i - 1
          /\ fetchLog[i].page = 1 => fetchLog[i].url = BaseUrl
          /\ fetchLog[i].page > 1 =>
                fetchLog[i].url = BaseUrl \o <<"page", "/", PageToken(fetchLog[i].page), "/">>
    /\ \A i, j \in 1..Len(fetchLog) : i # j => fetchLog[i].url # fetchLog[j].url

\* C16: with a limit L set, every return yields at most L records, a prefix
\* of the extraction results of the pages fetched, in page order.
C16_ReturnWithinLimit ==
    (wpc = "done" /\ limit # NoneInt) =>
        /\ Len(walk_result) <= limit
        /\ walk_result = Take(FoundUpTo(Len(fetchLog)), Len(walk_result))

----------------------------------------------------------------------------
(* Further properties of the retrieval engine, checked under SpecBatch *)

C18_SuccessPathsDistinct ==
    \A i, j \in 1..Len(success_log) :
        success_log[i].url # success_log[j].url
        => success_log[i].filepath # success_log[j].filepath

----------------------------------------------------------------------------
(* Properties of main_controller, checked under Spec *)

UrlPositions(records) == {i \in 1..Len(records) : records[i].url # <<>>}

NthUrl(records, k) ==
    CHOOSE i \in UrlPositions(records) :
        Cardinality({j \in UrlPositions(records) : j <= i}) = k

\* C19: the table has one row per record of the walker and is written before
\* the first download; the batch gets the urls of the records, in record
\* order, less the empty ones; the records stay as the walker returned them.
C19_TableThenUrlsInOrder ==
    /\ mpc \in {"saved", "downloading"} =>
          /\ Len(csv_rows) = Len(walk_result)
          /\ \A i \in 1..Len(csv_rows) : csv_rows[i][1] = walk_result[i].document_name
    /\ bpc # "idle" => mpc = "downloading"
    /\ calls # <<>> => mpc = "downloading"
    /\ mpc = "downloading" =>
          /\ Len(document_links) = Cardinality(UrlPositions(walk_result))
          /\ \A k \in 1..Len(document_links) :
                document_links[k] = walk_result[NthUrl(walk_result, k)].url
          /\ all_document_data = walk_result
          /\ walk_result = Take(FoundUpTo(Len(fetchLog)), Len(walk_result))

\* a batch under way on two records with the same url
C19_Witness ==
    /\ mpc = "downloading"
    /\ calls # <<>>
    /\ Len(walk_result) = 2
    /\ walk_result[1].url = walk_result[2].url
    /\ Len(csv_rows) = 2

\* the requests and pauses of the first k page fetches, in program order
RECURSIVE WalkEvents(_)
WalkEvents(k) ==
    IF k = 0 THEN <<>>
    ELSE WalkEvents(k - 1)
         \o <<[kind |-> "page", url |-> fetchLog[k].url]>>
         \o [i \in 1..Len(fetchLog[k].found) |->
                [kind |-> "text", url |-> fetchLog[k].found[i].url]]
         \o (IF k < Len(fetchLog) \/ wpc = "fetching"
             THEN <<[kind |-> "pause", url |-> <<>>]>> ELSE <<>>)

DownloadEvents ==
    LET fetching == SelectSeq(calls, LAMBDA c : c.fetched = 1)
    IN  [i \in 1..Len(fetching) |-> [kind |-> "download", url |-> fetching[i].url]]

PagePositions == {i \in 1..Len(trace) : trace[i].kind = "page"}

\* C20: the outbound requests happen one after the other in program order
\* (a page, the text extractions of its document links, the next page, ...,
\* then the downloads), and between two consecutive page fetches there is
\* exactly one pause.
C20_RequestsInProgramOrder ==
    /\ trace = WalkEvents(Len(fetchLog)) \o DownloadEvents
    /\ \A i, j \in PagePositions :
          (i < j /\ \A m \in PagePositions : ~(i < m /\ m < j))
          => Cardinality({m \in (i + 1)..(j - 1) : trace[m].kind = "pause"}) = 1
    /\ Cardinality({m \in 1..Len(trace) : trace[m].kind = "pause"}) = pauses

\* two page fetches with a text extraction and a pause between them
C20_Witness ==
    /\ Cardinality(PagePositions) >= 2
    /\ \E m \in 1..Len(trace) : trace[m].kind = "text"
    /\ mpc = "downloading"
    /\ calls # <<>>

====
